---------------------------- MODULE Spec2Model ----------------------------
(***************************************************************************)
(* currency-codes-country-codes-flags: the data generation script, the     *)
(* index construction at module load, and the public query functions.      *)
(*                                                                         *)
(* A JavaScript string is modelled as a sequence of one-character strings, *)
(* so that trim, toUpperCase, toLowerCase, includes and the regular        *)
(* expression of search are computed character by character.               *)
(***************************************************************************)
EXTENDS Integers, Sequences, FiniteSets, TLC

\* ------------------------------------------------------------------ bounds
\* how many entries of the countries feed one generation run reads
MaxCountries == 2
\* how many entries of the currency-name feed one generation run reads
MaxRates == 2
\* how many white-space characters a caller puts before or after an argument
MaxPad == 1

\* ----------------------------------------------------------- JS strings
\* String.prototype.repeat, for a one-character string
RECURSIVE Repeat(_, _)
Repeat(c, n) == IF n = 0 THEN <<>> ELSE <<c>> \o Repeat(c, n - 1)

\* the printable ASCII characters, code units 32..126, in code-unit order
\* (code unit 96, the grave accent, is written "grave")
Ascii == <<" ","!","\"","#","$","%","&","'","(",")","*","+",",","-",".","/","0","1","2","3","4","5","6","7","8","9",":",";","<","=",">","?","@","A","B","C","D","E","F","G","H","I","J","K","L","M","N","O","P","Q","R","S","T","U","V","W","X","Y","Z","[","\\","]","^","_","grave","a","b","c","d","e","f","g","h","i","j","k","l","m","n","o","p","q","r","s","t","u","v","w","x","y","z","{","|","}","~">>

CharSet == {Ascii[k] : k \in 1..Len(Ascii)} \cup {"\t"}

\* f as an explicit table (f @@ the empty function is f, enumerated)
Tabulated(f) == f @@ [x \in {} |-> x]

\* the UTF-16 code unit of a character (what Array.prototype.sort compares)
CodeUnit ==
  Tabulated([c \in CharSet |->
               IF c = "\t" THEN 9
               ELSE 31 + (CHOOSE k \in 1..Len(Ascii) : Ascii[k] = c)])

\* the characters String.prototype.trim strips (those the model's inputs use)
WhiteSpace == {" ", "\t"}

toUpperCaseChar ==
  Tabulated([c \in CharSet |->
               IF CodeUnit[c] \in 97..122 THEN Ascii[CodeUnit[c] - 63] ELSE c])

toLowerCaseChar ==
  Tabulated([c \in CharSet |->
               IF CodeUnit[c] \in 65..90 THEN Ascii[CodeUnit[c] + 1] ELSE c])

toUpperCase(s) == [k \in 1..Len(s) |-> toUpperCaseChar[s[k]]]

toLowerCase(s) == [k \in 1..Len(s) |-> toLowerCaseChar[s[k]]]

SetMin(S) == CHOOSE x \in S : \A y \in S : x <= y

SetMax(S) == CHOOSE x \in S : \A y \in S : y <= x

trim(s) ==
  LET solid == {k \in 1..Len(s) : s[k] \notin WhiteSpace}
  IN  IF solid = {} THEN <<>> ELSE SubSeq(s, SetMin(solid), SetMax(solid))

\* String.prototype.includes
includes(haystack, q) ==
  \E k \in 0..(Len(haystack) - Len(q)) : SubSeq(haystack, k + 1, k + Len(q)) = q

\* Array.prototype.includes
arrayIncludes(arr, x) == \E k \in 1..Len(arr) : arr[k] = x

RECURSIVE join(_, _)
join(arr, sep) ==
  IF arr = <<>> THEN <<>>
  ELSE IF Len(arr) = 1 THEN arr[1]
  ELSE arr[1] \o sep \o join(Tail(arr), sep)

\* an absent argument (undefined or null); every other argument is a string
Absent == <<"null">>

\* the JS test !x for an argument: absent, or the empty string
Falsy(x) == x = Absent \/ x = <<>>

\* the JS value null, and a string where null is the alternative
Null == [null |-> TRUE]

Str(s) == [str |-> s]

\* -------------------------------------------------------------- utils.js
normalizeCurrencyCode_NoTrim(code) ==
  IF Falsy(code) THEN <<>> ELSE toUpperCase(code)

normalizeCurrencyCode(code) ==
  IF Falsy(code) THEN <<>> ELSE toUpperCase(trim(code))

normalizeCountryCode(code) ==
  IF Falsy(code) THEN <<>> ELSE toUpperCase(trim(code))

\* Array.from(new Set(values)): the first occurrence of each value, in order
RECURSIVE SetFrom(_, _)
SetFrom(values, acc) ==
  IF values = <<>> THEN acc
  ELSE SetFrom(Tail(values),
               IF arrayIncludes(acc, Head(values)) THEN acc
               ELSE Append(acc, Head(values)))

uniqueArray(values) == SetFrom(values, <<>>)

toFlagFilename_KeepCase(countryCode) ==
  normalizeCountryCode(countryCode) \o <<".","s","v","g">>

toFlagFilename(countryCode) ==
  toLowerCase(normalizeCountryCode(countryCode)) \o <<".","s","v","g">>

\* import.meta.url of utils.js: wherever the package is installed
importMetaUrl == <<"f","i","l","e",":","/","/","/","p","k","g","/","s","r","c","/","u","t","i","l","s",".","j","s">>

\* the characters the URL parser percent-encodes in a path
PathPercentEncode(c) ==
  CASE c = " "  -> <<"%","2","0">>
    [] c = "\"" -> <<"%","2","2">>
    [] c = "<"  -> <<"%","3","C">>
    [] c = ">"  -> <<"%","3","E">>
    [] c = "grave" -> <<"%","6","0">>
    [] c = "{"  -> <<"%","7","B">>
    [] c = "}"  -> <<"%","7","D">>
    [] OTHER    -> <<c>>

RECURSIVE EncodePath(_)
EncodePath(s) ==
  IF s = <<>> THEN <<>> ELSE PathPercentEncode(Head(s)) \o EncodePath(Tail(s))

\* the base URL up to and including the last "/" before position n
DirOf(url) ==
  SubSeq(url, 1, SetMax({k \in 1..Len(url) : url[k] = "/"}))

\* new URL("../flags/" + filename, base).toString(), for a filename that
\* holds no "/", "\", "?", "#", tab or line break: drop the base's file
\* name, go one directory up, append flags/ and the encoded filename
URLResolveFlag(filename, base) ==
  LET dir    == DirOf(base)
      parent == DirOf(SubSeq(dir, 1, Len(dir) - 1))
  IN  parent \o <<"f","l","a","g","s","/">> \o EncodePath(filename)

flagUrlFromCountryCode(countryCode) ==
  URLResolveFlag(toFlagFilename(countryCode), importMetaUrl)

\* ------------------------------------------------- scripts/generate-data.mjs
normalizeCode(s) == IF Falsy(s) THEN <<>> ELSE toUpperCase(trim(s))

PRIMARY_OVERRIDES ==
  << <<<<"E","U","R">>, <<"E","U">>>>, <<<<"U","S","D">>, <<"U","S">>>>, <<<<"G","B","P">>, <<"G","B">>>>,
     <<<<"A","U","D">>, <<"A","U">>>>, <<<<"C","A","D">>, <<"C","A">>>>, <<<<"C","H","F">>, <<"C","H">>>>,
     <<<<"J","P","Y">>, <<"J","P">>>>, <<<<"C","N","Y">>, <<"C","N">>>>, <<<<"H","K","D">>, <<"H","K">>>>,
     <<<<"S","G","D">>, <<"S","G">>>>, <<<<"X","A","F">>, <<"C","M">>>>, <<<<"X","O","F">>, <<"S","N">>>>,
     <<<<"X","C","D">>, <<"A","G">>>> >>

EXTRA_CODES ==
  << [code |-> <<"X","X","X">>, name |-> <<"N","o"," ","c","u","r","r","e","n","c","y">>],
     [code |-> <<"X","T","S">>, name |-> <<"C","o","d","e","s"," ","s","p","e","c","i","f","i","c","a","l","l","y"," ","r","e","s","e","r","v","e","d"," ","f","o","r"," ","t","e","s","t","i","n","g"," ","p","u","r","p","o","s","e","s">>],
     [code |-> <<"X","P","T">>, name |-> <<"P","l","a","t","i","n","u","m"," ","(","o","n","e"," ","t","r","o","y"," ","o","u","n","c","e",")">>],
     [code |-> <<"X","P","D">>, name |-> <<"P","a","l","l","a","d","i","u","m"," ","(","o","n","e"," ","t","r","o","y"," ","o","u","n","c","e",")">>],
     [code |-> <<"X","A","U">>, name |-> <<"G","o","l","d"," ","(","o","n","e"," ","t","r","o","y"," ","o","u","n","c","e",")">>],
     [code |-> <<"X","A","G">>, name |-> <<"S","i","l","v","e","r"," ","(","o","n","e"," ","t","r","o","y"," ","o","u","n","c","e",")">>],
     [code |-> <<"X","D","R">>, name |-> <<"S","p","e","c","i","a","l"," ","D","r","a","w","i","n","g"," ","R","i","g","h","t","s">>],
     [code |-> <<"X","B","A">>, name |-> <<"B","o","n","d"," ","M","a","r","k","e","t","s"," ","U","n","i","t"," ","E","u","r","o","p","e","a","n"," ","C","o","m","p","o","s","i","t","e"," ","U","n","i","t"," ","(","E","U","R","C","O",")">>],
     [code |-> <<"X","B","B">>, name |-> <<"B","o","n","d"," ","M","a","r","k","e","t","s"," ","U","n","i","t"," ","E","u","r","o","p","e","a","n"," ","M","o","n","e","t","a","r","y"," ","U","n","i","t"," ","(","E",".","M",".","U",".","-","6",")">>],
     [code |-> <<"X","B","C">>, name |-> <<"B","o","n","d"," ","M","a","r","k","e","t","s"," ","U","n","i","t"," ","E","u","r","o","p","e","a","n"," ","U","n","i","t"," ","o","f"," ","A","c","c","o","u","n","t"," ","9"," ","(","E",".","U",".","A",".","-","9",")">>],
     [code |-> <<"X","B","D">>, name |-> <<"B","o","n","d"," ","M","a","r","k","e","t","s"," ","U","n","i","t"," ","E","u","r","o","p","e","a","n"," ","U","n","i","t"," ","o","f"," ","A","c","c","o","u","n","t"," ","1","7"," ","(","E",".","U",".","A",".","-","1","7",")">>],
     [code |-> <<"X","S","U">>, name |-> <<"S","u","c","r","e">>],
     [code |-> <<"X","U","A">>, name |-> <<"A","D","B"," ","U","n","i","t"," ","o","f"," ","A","c","c","o","u","n","t">>] >>

\* the alias table the script writes into data.js beside the records
currencyNameAliases ==
  << <<<<"U","S","D">>, <<<<"U","S"," ","D","o","l","l","a","r">>, <<"D","o","l","l","a","r">>, <<"A","m","e","r","i","c","a","n"," ","D","o","l","l","a","r">>>> >>,
     <<<<"E","U","R">>, <<<<"E","u","r","o","z","o","n","e"," ","E","u","r","o">>>> >>,
     <<<<"G","B","P">>, <<<<"B","r","i","t","i","s","h"," ","P","o","u","n","d">>, <<"S","t","e","r","l","i","n","g">>>> >>,
     <<<<"A","U","D">>, <<<<"A","u","s","s","i","e"," ","D","o","l","l","a","r">>>> >>,
     <<<<"N","Z","D">>, <<<<"K","i","w","i"," ","D","o","l","l","a","r">>>> >>,
     <<<<"C","H","F">>, <<<<"S","w","i","s","s"," ","F","r","a","n","c">>>> >>,
     <<<<"C","N","Y">>, <<<<"R","e","n","m","i","n","b","i">>, <<"Y","u","a","n"," ","R","e","n","m","i","n","b","i">>>> >>,
     <<<<"J","P","Y">>, <<<<"Y","e","n">>>> >>,
     <<<<"H","K","D">>, <<<<"H","o","n","g"," ","K","o","n","g"," ","D","o","l","l","a","r">>>> >>,
     <<<<"S","G","D">>, <<<<"S","i","n","g","a","p","o","r","e"," ","D","o","l","l","a","r">>>> >>,
     <<<<"I","N","R">>, <<<<"I","n","d","i","a","n"," ","R","u","p","e","e">>>> >>,
     <<<<"A","E","D">>, <<<<"D","i","r","h","a","m">>, <<"U","A","E"," ","D","i","r","h","a","m">>>> >>,
     <<<<"S","A","R">>, <<<<"S","a","u","d","i"," ","R","i","y","a","l">>>> >>,
     <<<<"K","W","D">>, <<<<"K","u","w","a","i","t","i"," ","D","i","n","a","r">>>> >>,
     <<<<"Q","A","R">>, <<<<"Q","a","t","a","r","i"," ","R","i","y","a","l">>>> >>,
     <<<<"B","H","D">>, <<<<"B","a","h","r","a","i","n","i"," ","D","i","n","a","r">>>> >>,
     <<<<"O","M","R">>, <<<<"O","m","a","n","i"," ","R","i","a","l">>>> >>,
     <<<<"T","R","Y">>, <<<<"T","u","r","k","i","s","h"," ","L","i","r","a">>>> >>,
     <<<<"E","G","P">>, <<<<"E","g","y","p","t","i","a","n"," ","P","o","u","n","d">>>> >>,
     <<<<"R","U","B">>, <<<<"R","u","s","s","i","a","n"," ","R","u","b","l","e">>, <<"R","u","b","l","e">>>> >>,
     <<<<"S","E","K">>, <<<<"S","w","e","d","i","s","h"," ","K","r","o","n","a">>>> >>,
     <<<<"N","O","K">>, <<<<"N","o","r","w","e","g","i","a","n"," ","K","r","o","n","e">>>> >>,
     <<<<"D","K","K">>, <<<<"D","a","n","i","s","h"," ","K","r","o","n","e">>>> >>,
     <<<<"X","A","F">>, <<<<"C","F","A"," ","F","r","a","n","c"," ","B","E","A","C">>, <<"C","e","n","t","r","a","l"," ","A","f","r","i","c","a","n"," ","C","F","A">>>> >>,
     <<<<"X","O","F">>, <<<<"C","F","A"," ","F","r","a","n","c"," ","B","C","E","A","O">>, <<"W","e","s","t"," ","A","f","r","i","c","a","n"," ","C","F","A">>>> >>,
     <<<<"Z","A","R">>, <<<<"S","o","u","t","h"," ","A","f","r","i","c","a","n"," ","R","a","n","d">>, <<"R","a","n","d">>>> >>
  >>

\* obj[key] || fallback, for a table of <<key, value>> pairs
Lookup(table, key, fallback) ==
  IF \E k \in 1..Len(table) : table[k][1] = key
  THEN table[CHOOSE k \in 1..Len(table) : table[k][1] = key][2]
  ELSE fallback

\* Set.prototype.add on an insertion-ordered set
SetAdd(set, x) == IF arrayIncludes(set, x) THEN set ELSE Append(set, x)

RECURSIVE SetAddAll(_, _)
SetAddAll(set, xs) ==
  IF xs = <<>> THEN set ELSE SetAddAll(SetAdd(set, Head(xs)), Tail(xs))

\* the script's map: currency code -> {nameCandidates, countryCodes}, a
\* sequence in insertion order.  One pass of a merge loop: create the entry
\* when it is missing, then add the names and the country codes given.
Merge(map, code, names, cca2s) ==
  LET m == IF \E k \in 1..Len(map) : map[k].code = code THEN map
           ELSE Append(map, [code |-> code, nameCandidates |-> <<>>,
                             countryCodes |-> <<>>])
  IN  [k \in 1..Len(m) |->
         IF m[k].code = code
         THEN [code           |-> code,
               nameCandidates |-> SetAddAll(m[k].nameCandidates, names),
               countryCodes   |-> SetAddAll(m[k].countryCodes, cca2s)]
         ELSE m[k]]

\* for (const [ccy, def] of Object.entries(c.currencies || {}))
RECURSIVE MergeCurrencies(_, _, _)
MergeCurrencies(map, cca2, currencies) ==
  IF currencies = <<>> THEN map
  ELSE LET def == Head(currencies)
       IN  MergeCurrencies(
             Merge(map, normalizeCode(def.code),
                   IF Falsy(def.name) THEN <<>> ELSE <<def.name>>,
                   IF cca2 = <<>> THEN <<>> ELSE <<cca2>>),
             cca2, Tail(currencies))

\* for (const c of countries)
RECURSIVE MergeCountries(_, _)
MergeCountries(map, countries) ==
  IF countries = <<>> THEN map
  ELSE MergeCountries(
         MergeCurrencies(map, normalizeCode(Head(countries).cca2),
                         Head(countries).currencies),
         Tail(countries))

\* the two later loops: names only, added whatever they are
RECURSIVE MergeNames(_, _)
MergeNames(map, entries) ==
  IF entries = <<>> THEN map
  ELSE MergeNames(Merge(map, normalizeCode(Head(entries).code),
                        <<Head(entries).name>>, <<>>),
                  Tail(entries))

\* the default comparison of Array.prototype.sort: by code units
RECURSIVE StrLess(_, _)
StrLess(a, b) ==
  IF b = <<>> THEN FALSE
  ELSE IF a = <<>> THEN TRUE
  ELSE IF a[1] # b[1] THEN CodeUnit[a[1]] < CodeUnit[b[1]]
  ELSE StrLess(Tail(a), Tail(b))

RECURSIVE SortInsert(_, _)
SortInsert(sorted, x) ==
  IF sorted = <<>> THEN <<x>>
  ELSE IF StrLess(x, Head(sorted)) THEN <<x>> \o sorted
  ELSE <<Head(sorted)>> \o SortInsert(Tail(sorted), x)

RECURSIVE sort(_)
sort(arr) ==
  IF arr = <<>> THEN <<>>
  ELSE SortInsert(sort(SubSeq(arr, 1, Len(arr) - 1)), arr[Len(arr)])

choosePrimary(code, countriesArr) ==
  LET override == Lookup(PRIMARY_OVERRIDES, code, <<>>)
  IN  IF override # <<>> THEN override
      ELSE IF countriesArr # <<>> /\ countriesArr[1] # <<>> THEN countriesArr[1]
      ELSE <<"X","X">>

otherCountries_NoFilter(countriesArr, primary) == countriesArr

otherCountries(countriesArr, primary) ==
  SelectSeq(countriesArr, LAMBDA cc : cc # primary)

\* one record of data.js, from one entry of the map
recordOf(data) ==
  LET countriesArr == sort(data.countryCodes)
      primary      == choosePrimary(data.code, countriesArr)
      name         == IF data.nameCandidates # <<>> /\ data.nameCandidates[1] # <<>>
                      THEN data.nameCandidates[1] ELSE data.code
  IN  [currencyCode       |-> data.code,
       currencyName       |-> name,
       primaryCountryCode |-> primary,
       otherCountryCodes  |-> otherCountries(countriesArr, primary)]

\* build(): the records of data.js, for what the two feeds returned
build(countries, codeToName) ==
  LET map      == MergeNames(MergeNames(MergeCountries(<<>>, countries), codeToName),
                             EXTRA_CODES)
      allCodes == sort([k \in 1..Len(map) |-> map[k].code])
  IN  [k \in 1..Len(allCodes) |->
         recordOf(map[CHOOSE j \in 1..Len(map) : map[j].code = allCodes[k]])]

\* ------------------------------------------------------------ the feeds
\* entries of the countries feed (cca2, currencies) a run may read
CountryPool ==
  << [cca2 |-> <<"U","S">>,
      currencies |-> <<[code |-> <<"U","S","D">>, name |-> <<"U","n","i","t","e","d"," ","S","t","a","t","e","s"," ","d","o","l","l","a","r">>]>>],
     [cca2 |-> <<"E","C">>,
      currencies |-> <<[code |-> <<"U","S","D">>, name |-> <<"U","n","i","t","e","d"," ","S","t","a","t","e","s"," ","d","o","l","l","a","r">>]>>],
     [cca2 |-> <<"F","R">>,
      currencies |-> <<[code |-> <<"E","U","R">>, name |-> <<"E","u","r","o">>]>>],
     [cca2 |-> <<"P","A">>,
      currencies |-> <<[code |-> <<"P","A","B">>, name |-> <<"P","a","n","a","m","a","n","i","a","n"," ","b","a","l","b","o","a">>],
                       [code |-> <<"U","S","D">>, name |-> <<"U","n","i","t","e","d"," ","S","t","a","t","e","s"," ","d","o","l","l","a","r">>]>>],
     [cca2 |-> <<" ","n","z">>,
      currencies |-> <<[code |-> <<"n","z","d">>, name |-> <<"N","e","w"," ","Z","e","a","l","a","n","d"," ","d","o","l","l","a","r">>]>>] >>

\* entries of the currency-name feed (code, name) a run may read
RatesPool ==
  << [code |-> <<"G","B","P">>,  name |-> <<"B","r","i","t","i","s","h"," ","P","o","u","n","d"," ","S","t","e","r","l","i","n","g">>],
     [code |-> <<"D","O","G","E">>, name |-> <<"D","o","g","e","c","o","i","n">>],
     [code |-> <<"U","S","D">>,  name |-> <<"U","n","i","t","e","d"," ","S","t","a","t","e","s"," ","D","o","l","l","a","r">>] >>

\* the first n entries of pool, for every n up to max
Prefixes(pool, max) ==
  {SubSeq(pool, 1, n) : n \in 0..(IF max < Len(pool) THEN max ELSE Len(pool))}

\* the subsequences of pool with at most n entries
RECURSIVE SubSeqs(_, _)
SubSeqs(pool, n) ==
  IF pool = <<>> \/ n = 0 THEN {<<>>}
  ELSE SubSeqs(Tail(pool), n)
       \cup {<<Head(pool)>> \o rest : rest \in SubSeqs(Tail(pool), n - 1)}

\* ------------------------------------------------------------- the state
VARIABLES
  pc,                     \* "generate", "index" (module load) or "ready"
  feedCountries,          \* what the countries feed returned to the script
  feedNames,              \* what the currency-name feed returned
  currencyCountryData,    \* data.js: the records the script wrote
  cursor,                      \* the entry the load-time loop of index.js is at
  codeToCurrency,         \* Map: currency code -> record
  countryToCurrencyCodes, \* Map: country code -> Set of currency codes
  nameHaystackByCode,     \* Map: currency code -> lower-cased "name|aliases"
  call,                   \* the public function called last and its argument
  result                  \* what that call returned

indices == <<codeToCurrency, countryToCurrencyCodes, nameHaystackByCode>>

vars == <<pc, feedCountries, feedNames, currencyCountryData, cursor,
          codeToCurrency, countryToCurrencyCodes, nameHaystackByCode,
          call, result>>

\* no call in progress
Idle == [op |-> "none", arg |-> <<>>]

\* a JS Map as a sequence of [key, value] in insertion order
MapHas(map, key) == \E k \in 1..Len(map) : map[k].key = key

MapGet(map, key) == map[CHOOSE k \in 1..Len(map) : map[k].key = key].value

MapSet(map, key, value) ==
  IF MapHas(map, key)
  THEN [k \in 1..Len(map) |->
          IF map[k].key = key THEN [key |-> key, value |-> value] ELSE map[k]]
  ELSE Append(map, [key |-> key, value |-> value])

MapKeys(map) == [k \in 1..Len(map) |-> map[k].key]

MapValues(map) == [k \in 1..Len(map) |-> map[k].value]

Init ==
  /\ pc = "generate"
  /\ feedCountries \in SubSeqs(CountryPool, MaxCountries)
  /\ feedNames \in Prefixes(RatesPool, MaxRates)
  /\ currencyCountryData = <<>>
  /\ cursor = 1
  /\ codeToCurrency = <<>>
  /\ countryToCurrencyCodes = <<>>
  /\ nameHaystackByCode = <<>>
  /\ call = Idle
  /\ result = Null

\* node scripts/generate-data.mjs: writes data.js and exits
Generate ==
  /\ pc = "generate"
  /\ currencyCountryData' = build(feedCountries, feedNames)
  /\ feedCountries' = <<>>
  /\ feedNames' = <<>>
  /\ pc' = "index"
  /\ UNCHANGED <<cursor, codeToCurrency, countryToCurrencyCodes, nameHaystackByCode,
                 call, result>>

\* the closure push of the load-time loop
push(map, countryCode, ccy) ==
  LET key == normalizeCountryCode(countryCode)
      m   == IF MapHas(map, key) THEN map ELSE MapSet(map, key, <<>>)
  IN  MapSet(m, key, SetAdd(MapGet(m, key), ccy))

pushAll_PrimaryOnly(map, countryCodes, ccy) == push(map, Head(countryCodes), ccy)

\* push(primary); for (const oc of others) push(oc);
RECURSIVE pushAll(_, _, _)
pushAll(map, countryCodes, ccy) ==
  IF countryCodes = <<>> THEN map
  ELSE pushAll(push(map, Head(countryCodes), ccy), Tail(countryCodes), ccy)

\* one iteration of for (const entry of currencyCountryData)
IndexEntry ==
  /\ pc = "index"
  /\ cursor <= Len(currencyCountryData)
  /\ LET entry      == currencyCountryData[cursor]
         ccy        == normalizeCurrencyCode(entry.currencyCode)
         primary    == normalizeCountryCode(entry.primaryCountryCode)
         others     == [k \in 1..Len(entry.otherCountryCodes) |->
                          normalizeCountryCode(entry.otherCountryCodes[k])]
         normalized == [currencyCode       |-> ccy,
                        currencyName       |-> entry.currencyName,
                        primaryCountryCode |-> primary,
                        otherCountryCodes  |-> others]
         aliases    == join(Lookup(currencyNameAliases, ccy, <<>>), <<"|">>)
     IN  /\ codeToCurrency' = MapSet(codeToCurrency, ccy, normalized)
         /\ nameHaystackByCode' =
              MapSet(nameHaystackByCode, ccy,
                     toLowerCase(entry.currencyName \o <<"|">> \o aliases))
         /\ countryToCurrencyCodes' =
              pushAll(countryToCurrencyCodes, <<primary>> \o others, ccy)
  /\ cursor' = cursor + 1
  /\ pc' = IF cursor = Len(currencyCountryData) THEN "ready" ELSE "index"
  /\ UNCHANGED <<feedCountries, feedNames, currencyCountryData, call, result>>

\* ------------------------------------------------- index.js: the public API
getAllCurrencyEntries == MapValues(codeToCurrency)

getCurrencyByCode(currencyCode) ==
  LET key == normalizeCurrencyCode(currencyCode)
  IN  IF MapHas(codeToCurrency, key) THEN MapGet(codeToCurrency, key) ELSE Null

getCurrenciesByCountryCode(countryCode) ==
  LET key == normalizeCountryCode(countryCode)
  IN  IF ~MapHas(countryToCurrencyCodes, key) THEN <<>>
      ELSE LET set == MapGet(countryToCurrencyCodes, key)
           IN  [k \in 1..Len(set) |-> MapGet(codeToCurrency, set[k])]

getPrimaryCountryForCurrency(currencyCode) ==
  LET data == getCurrencyByCode(currencyCode)
  IN  IF data # Null THEN Str(data.primaryCountryCode) ELSE Null

getOtherCountriesForCurrency(currencyCode) ==
  LET data == getCurrencyByCode(currencyCode)
  IN  IF data # Null THEN data.otherCountryCodes ELSE <<>>

findCurrenciesByName_CaseSensitive(query) ==
  IF Falsy(query) THEN <<>>
  ELSE LET q    == trim(query)
           hits == SelectSeq(nameHaystackByCode, LAMBDA e : includes(e.value, q))
       IN  [k \in 1..Len(hits) |-> MapGet(codeToCurrency, hits[k].key)]

findCurrenciesByName(query) ==
  IF Falsy(query) THEN <<>>
  ELSE LET q    == toLowerCase(trim(query))
           hits == SelectSeq(nameHaystackByCode, LAMBDA e : includes(e.value, q))
       IN  [k \in 1..Len(hits) |-> MapGet(codeToCurrency, hits[k].key)]

getFlagUrlByCountryCode(countryCode) ==
  IF Falsy(countryCode) THEN Null ELSE Str(flagUrlFromCountryCode(countryCode))

getFlagUrlByCurrencyCode(currencyCode) ==
  LET data == getCurrencyByCode(currencyCode)
  IN  IF data = Null THEN Null
      ELSE Str(flagUrlFromCountryCode(data.primaryCountryCode))

getFlagUrlsForCurrency_Reversed(currencyCode) ==
  LET data == getCurrencyByCode(currencyCode)
  IN  IF data = Null THEN [primary |-> Null, others |-> <<>>]
      ELSE LET n == Len(data.otherCountryCodes)
           IN  [primary |-> Str(flagUrlFromCountryCode(data.primaryCountryCode)),
                others  |-> [k \in 1..n |->
                   flagUrlFromCountryCode(data.otherCountryCodes[n + 1 - k])]]

getFlagUrlsForCurrency(currencyCode) ==
  LET data == getCurrencyByCode(currencyCode)
  IN  IF data = Null THEN [primary |-> Null, others |-> <<>>]
      ELSE [primary |-> Str(flagUrlFromCountryCode(data.primaryCountryCode)),
            others  |-> [k \in 1..Len(data.otherCountryCodes) |->
                           flagUrlFromCountryCode(data.otherCountryCodes[k])]]

getCurrencyCodes == MapKeys(codeToCurrency)

\* getAllCurrencyEntries().flatMap((e) => [e.primaryCountryCode, ...others])
RECURSIVE flatMapCountries(_)
flatMapCountries(entries) ==
  IF entries = <<>> THEN <<>>
  ELSE <<Head(entries).primaryCountryCode>> \o Head(entries).otherCountryCodes
       \o flatMapCountries(Tail(entries))

getCountryCodes == uniqueArray(flatMapCountries(getAllCurrencyEntries))

getCurrencyCodesByCountryCode(countryCode) ==
  LET key == normalizeCountryCode(countryCode)
  IN  IF MapHas(countryToCurrencyCodes, key)
      THEN MapGet(countryToCurrencyCodes, key) ELSE <<>>

getAllCountriesUsingCurrency_OthersOnly(currencyCode) ==
  LET data == getCurrencyByCode(currencyCode)
  IN  IF data = Null THEN <<>> ELSE uniqueArray(data.otherCountryCodes)

getAllCountriesUsingCurrency(currencyCode) ==
  LET data == getCurrencyByCode(currencyCode)
  IN  IF data = Null THEN <<>>
      ELSE uniqueArray(<<data.primaryCountryCode>> \o data.otherCountryCodes)

getCountriesForCurrency(currencyCode) ==
  LET data == getCurrencyByCode(currencyCode)
  IN  IF data = Null THEN [primary |-> Null, others |-> <<>>, all |-> <<>>]
      ELSE [primary |-> Str(data.primaryCountryCode),
            others  |-> data.otherCountryCodes,
            all     |-> uniqueArray(<<data.primaryCountryCode>>
                                    \o data.otherCountryCodes)]

getCurrenciesByExactName_Substring(name) ==
  IF Falsy(name) THEN <<>>
  ELSE LET q == toLowerCase(trim(name))
           hit(e) ==
             LET entry   == MapGet(codeToCurrency, e.key)
                 aliases == Lookup(currencyNameAliases, e.key, <<>>)
                 exacts  == [k \in 1..(1 + Len(aliases)) |->
                               toLowerCase((<<entry.currencyName>> \o aliases)[k])]
             IN  \E k \in 1..Len(exacts) : includes(exacts[k], q)
           hits == SelectSeq(nameHaystackByCode, hit)
       IN  [k \in 1..Len(hits) |-> MapGet(codeToCurrency, hits[k].key)]

getCurrenciesByExactName(name) ==
  IF Falsy(name) THEN <<>>
  ELSE LET q == toLowerCase(trim(name))
           hit(e) ==
             LET entry   == MapGet(codeToCurrency, e.key)
                 aliases == Lookup(currencyNameAliases, e.key, <<>>)
                 exacts  == [k \in 1..(1 + Len(aliases)) |->
                               toLowerCase((<<entry.currencyName>> \o aliases)[k])]
             IN  arrayIncludes(exacts, q)
           hits == SelectSeq(nameHaystackByCode, hit)
       IN  [k \in 1..Len(hits) |-> MapGet(codeToCurrency, hits[k].key)]

\* /^[a-zA-Z-]{2,5}$/.test(q)
CountryPattern(q) ==
  /\ Len(q) >= 2
  /\ Len(q) <= 5
  /\ \A k \in 1..Len(q) :
       \/ CodeUnit[q[k]] \in 65..90
       \/ CodeUnit[q[k]] \in 97..122
       \/ q[k] = "-"

isCountry_PatternOnly(q) == CountryPattern(q)

isCountry(q) == Len(q) <= 3 /\ CountryPattern(q)

search(query) ==
  IF Falsy(query) THEN <<>>
  ELSE LET q == trim(query)
       IN  IF isCountry(q) THEN getCurrenciesByCountryCode(q)
           ELSE LET byCode == getCurrencyByCode(q)
                IN  IF byCode # Null THEN <<byCode>>
                    ELSE findCurrenciesByName(q)

\* ------------------------------------------------- the callers' arguments
\* s with l spaces before it and r tabs after it
Pad(s, l, r) == Repeat(" ", l) \o s \o Repeat("\t", r)

\* s with its first letter in upper case and the rest in lower case
Capitalise(s) ==
  [k \in 1..Len(s) |-> IF k = 1 THEN toUpperCaseChar[s[k]] ELSE toLowerCaseChar[s[k]]]

\* s as a caller may write it: as it is, in lower case, and capitalised with
\* n white-space characters before it, after it, or on both sides, for n up
\* to MaxPad
Variants(s) ==
  {s, toLowerCase(s), Capitalise(s)}
  \cup UNION {{Pad(Capitalise(s), n, 0), Pad(Capitalise(s), 0, n),
               Pad(Capitalise(s), n, n)} : n \in 1..MaxPad}

Blank == {Absent, <<>>, Pad(<<>>, 1, 0)}

CountryBases == {<<"U","S">>, <<"E","C">>, <<"E","U">>, <<"N","Z">>, <<"Z","Z">>}

CurrencyBases == {<<"U","S","D">>, <<"E","U","R">>, <<"D","O","G","E">>, <<"Z","Z","Z">>}

NameBases ==
  {<<"D","o","l","l","a","r">>, <<"U","S"," ","D","o","l","l","a","r">>, <<"E","u","r","o">>, <<"p","o","u","n","d">>, <<"S","u","c","r","e">>, <<"d","o","l","l","a","r","|","u","s">>,
   <<"z","l","o","t","y">>}

SearchBases ==
  {<<"U","S">>, <<"U","S","D">>, <<"D","O","G","E">>, <<"E","u","r","o">>, <<"S","u","c","r","e">>, <<"D","o","l","l","a","r">>, <<"U","S"," ","D","o","l","l","a","r">>,
   <<"U","-","S">>, <<"E","U","-","U","K">>, <<"U","S","1">>, <<"U">>, <<"z","l","o","t","y">>}

CountryInputs == Blank \cup UNION {Variants(s) : s \in CountryBases}

CurrencyInputs == Blank \cup UNION {Variants(s) : s \in CurrencyBases}

NameInputs == Blank \cup UNION {Variants(s) : s \in NameBases}

SearchInputs == Blank \cup UNION {Variants(s) : s \in SearchBases}

\* ------------------------------------------------------------ the calls
\* a public function is called with arg and returns value; nothing else changes
Returns(op, arg, value) ==
  /\ pc = "ready"
  /\ call = Idle
  /\ call' = [op |-> op, arg |-> arg]
  /\ result' = value
  /\ UNCHANGED <<pc, feedCountries, feedNames, currencyCountryData, cursor,
                 codeToCurrency, countryToCurrencyCodes, nameHaystackByCode>>

GetAllCurrencyEntries ==
  Returns("getAllCurrencyEntries", <<>>, getAllCurrencyEntries)

GetCurrencyByCode(arg) ==
  Returns("getCurrencyByCode", arg, getCurrencyByCode(arg))

\* a lookup that creates the Set it misses, as push does at load time
GetCurrenciesByCountryCode_Create(arg) ==
  /\ pc = "ready"
  /\ call = Idle
  /\ call' = [op |-> "getCurrenciesByCountryCode", arg |-> arg]
  /\ result' = getCurrenciesByCountryCode(arg)
  /\ countryToCurrencyCodes' =
       IF MapHas(countryToCurrencyCodes, normalizeCountryCode(arg))
       THEN countryToCurrencyCodes
       ELSE MapSet(countryToCurrencyCodes, normalizeCountryCode(arg), <<>>)
  /\ UNCHANGED <<pc, feedCountries, feedNames, currencyCountryData, cursor,
                 codeToCurrency, nameHaystackByCode>>

GetCurrenciesByCountryCode(arg) ==
  Returns("getCurrenciesByCountryCode", arg, getCurrenciesByCountryCode(arg))

GetPrimaryCountryForCurrency(arg) ==
  Returns("getPrimaryCountryForCurrency", arg, getPrimaryCountryForCurrency(arg))

GetOtherCountriesForCurrency(arg) ==
  Returns("getOtherCountriesForCurrency", arg, getOtherCountriesForCurrency(arg))

FindCurrenciesByName(arg) ==
  Returns("findCurrenciesByName", arg, findCurrenciesByName(arg))

GetFlagUrlByCountryCode(arg) ==
  Returns("getFlagUrlByCountryCode", arg, getFlagUrlByCountryCode(arg))

GetFlagUrlByCurrencyCode(arg) ==
  Returns("getFlagUrlByCurrencyCode", arg, getFlagUrlByCurrencyCode(arg))

GetFlagUrlsForCurrency(arg) ==
  Returns("getFlagUrlsForCurrency", arg, getFlagUrlsForCurrency(arg))

GetCurrencyCodes == Returns("getCurrencyCodes", <<>>, getCurrencyCodes)

GetCountryCodes == Returns("getCountryCodes", <<>>, getCountryCodes)

GetCurrencyCodesByCountryCode(arg) ==
  Returns("getCurrencyCodesByCountryCode", arg, getCurrencyCodesByCountryCode(arg))

GetAllCountriesUsingCurrency(arg) ==
  Returns("getAllCountriesUsingCurrency", arg, getAllCountriesUsingCurrency(arg))

GetCountriesForCurrency(arg) ==
  Returns("getCountriesForCurrency", arg, getCountriesForCurrency(arg))

GetCurrenciesByExactName(arg) ==
  Returns("getCurrenciesByExactName", arg, getCurrenciesByExactName(arg))

Search(arg) == Returns("search", arg, search(arg))

\* the caller has the value; the module waits for the next call
Return ==
  /\ pc = "ready"
  /\ call # Idle
  /\ call' = Idle
  /\ result' = Null
  /\ UNCHANGED <<pc, feedCountries, feedNames, currencyCountryData, cursor,
                 codeToCurrency, countryToCurrencyCodes, nameHaystackByCode>>

Next ==
  \/ Generate
  \/ IndexEntry
  \/ GetAllCurrencyEntries
  \/ \E arg \in CurrencyInputs : GetCurrencyByCode(arg)
  \/ \E arg \in CountryInputs : GetCurrenciesByCountryCode(arg)
  \/ \E arg \in CurrencyInputs : GetPrimaryCountryForCurrency(arg)
  \/ \E arg \in CurrencyInputs : GetOtherCountriesForCurrency(arg)
  \/ \E arg \in NameInputs : FindCurrenciesByName(arg)
  \/ \E arg \in CountryInputs : GetFlagUrlByCountryCode(arg)
  \/ \E arg \in CurrencyInputs : GetFlagUrlByCurrencyCode(arg)
  \/ \E arg \in CurrencyInputs : GetFlagUrlsForCurrency(arg)
  \/ GetCurrencyCodes
  \/ GetCountryCodes
  \/ \E arg \in CountryInputs : GetCurrencyCodesByCountryCode(arg)
  \/ \E arg \in CurrencyInputs : GetAllCountriesUsingCurrency(arg)
  \/ \E arg \in CurrencyInputs : GetCountriesForCurrency(arg)
  \/ \E arg \in NameInputs : GetCurrenciesByExactName(arg)
  \/ \E arg \in SearchInputs : Search(arg)
  \/ Return

Spec == Init /\ [][Next]_vars

\* ================================================================ claims
\* helpers of the statements below

Letters == {Ascii[k] : k \in 34..59} \cup {Ascii[k] : k \in 66..91}

LettersAndHyphens(s) == \A k \in 1..Len(s) : s[k] \in Letters \cup {"-"}

NoDuplicates(arr) ==
  \A j, k \in 1..Len(arr) : j # k => arr[j] # arr[k]

\* x is C in some letter case, with white space before and after it
DiffersOnlyInCaseOrPadding(x, C) ==
  /\ x # Absent
  /\ \E a \in 1..(Len(x) + 1) :
       /\ a + Len(C) - 1 <= Len(x)
       /\ \A k \in 1..Len(x) :
            IF k < a \/ k >= a + Len(C) THEN x[k] \in WhiteSpace
            ELSE toLowerCaseChar[x[k]] = toLowerCaseChar[C[k - a + 1]]

\* the records of data.js that name country code K
RecordsNaming(K) ==
  {k \in 1..Len(currencyCountryData) :
     \/ currencyCountryData[k].primaryCountryCode = K
     \/ arrayIncludes(currencyCountryData[k].otherCountryCodes, K)}

DataCodes ==
  {currencyCountryData[k].currencyCode : k \in 1..Len(currencyCountryData)}

Names(rec) ==
  <<rec.currencyName>> \o Lookup(currencyNameAliases, rec.currencyCode, <<>>)

\* the lower-cased canonical name together with all aliases: the name, "|",
\* and the aliases with "|" between them
HaystackOf(rec) ==
  toLowerCase(rec.currencyName \o <<"|">>
              \o join(Lookup(currencyNameAliases, rec.currencyCode, <<>>), <<"|">>))

\* the normalized form of an argument: trimmed and upper-cased
Norm(x) == IF Falsy(x) THEN <<>> ELSE toUpperCase(trim(x))

FlagsDirectory == <<"f","i","l","e",":","/","/","/","p","k","g","/","f","l","a","g","s","/">>

Called(op) == pc = "ready" /\ call.op = op

\* ---------------------------------------------------------------- C1
\* C1 as the claim states it: a non-empty query whose trimmed form is 2 to 5
\* letters or hyphens goes to getCurrenciesByCountryCode; otherwise a query
\* that normalizes to a currency code of the index yields that one record;
\* otherwise the result is findCurrenciesByName of the query.
C1_SearchDispatch_AsClaimed ==
  (Called("search") /\ ~Falsy(call.arg)) =>
    LET q == call.arg
        t == trim(q)
    IN  IF Len(t) \in 2..5 /\ LettersAndHyphens(t)
        THEN result = getCurrenciesByCountryCode(q)
        ELSE IF MapHas(codeToCurrency, normalizeCurrencyCode(q))
        THEN result = <<MapGet(codeToCurrency, normalizeCurrencyCode(q))>>
        ELSE result = findCurrenciesByName(q)

\* C1, amended: the country-code shape is 2 to 3 letters or hyphens (a
\* trimmed query of 4 or 5 letters is not country-shaped), and the name
\* search is given the trimmed query.
C1_SearchDispatch ==
  (Called("search") /\ ~Falsy(call.arg)) =>
    LET q == call.arg
        t == trim(q)
    IN  IF Len(t) \in 2..3 /\ LettersAndHyphens(t)
        THEN result = getCurrenciesByCountryCode(q)
        ELSE IF MapHas(codeToCurrency, normalizeCurrencyCode(q))
        THEN result = <<MapGet(codeToCurrency, normalizeCurrencyCode(q))>>
        ELSE result = findCurrenciesByName(t)

\* a query of four letters found as a currency code
C1_Witness ==
  /\ Called("search")
  /\ call.arg # Absent
  /\ Len(trim(call.arg)) = 4
  /\ LettersAndHyphens(trim(call.arg))
  /\ Len(result) = 1
  /\ result[1].currencyCode = toUpperCase(trim(call.arg))

\* ---------------------------------------------------------------- C2
\* C2: getCurrencyByCode, given a currency code of the dataset in any letter
\* case and with any surrounding white space, returns the record of that
\* code; given an input whose normalized form is no currency code of the
\* dataset, it returns null.
C2_GetCurrencyByCode ==
  Called("getCurrencyByCode") =>
    /\ \A C \in DataCodes :
         DiffersOnlyInCaseOrPadding(call.arg, C) =>
           /\ result # Null
           /\ result.currencyCode = toUpperCase(trim(C))
           /\ \E k \in 1..Len(currencyCountryData) :
                /\ currencyCountryData[k].currencyCode = C
                /\ result.currencyName = currencyCountryData[k].currencyName
    /\ Norm(call.arg) \notin DataCodes => result = Null

\* a padded, capitalised code that is found
C2_Witness ==
  /\ Called("getCurrencyByCode")
  /\ call.arg # Absent
  /\ trim(call.arg) # call.arg
  /\ toUpperCase(call.arg) # call.arg
  /\ result # Null

\* ---------------------------------------------------------------- C3
\* C3: for a country code named by some record of the dataset (as primary or
\* among the others), getCurrenciesByCountryCode returns a non-empty list
\* whose every record names that country code; for a country code no record
\* names, it returns the empty list.
C3_CountryLookup ==
  Called("getCurrenciesByCountryCode") =>
    LET K == Norm(call.arg)
    IN  IF RecordsNaming(K) # {}
        THEN /\ result # <<>>
             /\ \A k \in 1..Len(result) :
                  \/ result[k].primaryCountryCode = K
                  \/ arrayIncludes(result[k].otherCountryCodes, K)
        ELSE result = <<>>

\* a country that is only among the others of a currency
C3_Witness ==
  /\ Called("getCurrenciesByCountryCode")
  /\ result # <<>>
  /\ \E k \in 1..Len(result) :
       /\ result[k].primaryCountryCode # Norm(call.arg)
       /\ arrayIncludes(result[k].otherCountryCodes, Norm(call.arg))

\* ---------------------------------------------------------------- C4
\* C4: getAllCountriesUsingCurrency holds no duplicates; for a currency of
\* the dataset it is the primary country code followed by the other country
\* codes in their stored order; for any other code it is empty.
C4_AllCountries ==
  Called("getAllCountriesUsingCurrency") =>
    /\ NoDuplicates(result)
    /\ IF Norm(call.arg) \in DataCodes
       THEN /\ result # <<>>
            /\ Str(result[1]) = getPrimaryCountryForCurrency(call.arg)
            /\ Tail(result) = getOtherCountriesForCurrency(call.arg)
       ELSE result = <<>>

\* a currency with a primary country and at least one other
C4_Witness ==
  /\ Called("getAllCountriesUsingCurrency")
  /\ Len(result) >= 2

\* ---------------------------------------------------------------- C5
\* the records of the index, in insertion order, whose haystack contains q
RecordsContaining(q) ==
  SelectSeq(MapValues(codeToCurrency), LAMBDA rec : includes(HaystackOf(rec), q))

\* C5 as the claim states it: findCurrenciesByName returns exactly the
\* records whose haystack contains the lower-cased query, in index insertion
\* order, and the empty list for an empty or absent query.
C5_FindByName_AsClaimed ==
  Called("findCurrenciesByName") =>
    IF Falsy(call.arg) THEN result = <<>>
    ELSE result = RecordsContaining(toLowerCase(call.arg))

\* C5, amended: the query is trimmed before it is lower-cased and looked
\* for, so a query of white space alone returns every record.
C5_FindByName ==
  Called("findCurrenciesByName") =>
    IF Falsy(call.arg) THEN result = <<>>
    ELSE result = RecordsContaining(toLowerCase(trim(call.arg)))

\* a query in another letter case than the name, matching some records only
C5_Witness ==
  /\ Called("findCurrenciesByName")
  /\ call.arg # Absent
  /\ toLowerCase(call.arg) # call.arg
  /\ result # <<>>
  /\ Len(result) < Len(codeToCurrency)

\* ---------------------------------------------------------------- C6
\* the records of the index, in insertion order, one of whose names is q in
\* some letter case
RecordsNamed(q) ==
  SelectSeq(MapValues(codeToCurrency),
            LAMBDA rec : \E k \in 1..Len(Names(rec)) :
                           toLowerCase(Names(rec)[k]) = toLowerCase(q))

\* C6 as the claim states it: getCurrenciesByExactName returns exactly the
\* records whose canonical name or one of whose aliases equals the query
\* case-insensitively, and the empty list for an empty or absent name.
C6_ExactName_AsClaimed ==
  Called("getCurrenciesByExactName") =>
    IF Falsy(call.arg) THEN result = <<>>
    ELSE result = RecordsNamed(call.arg)

\* C6, amended: the name or alias equals the trimmed query
\* case-insensitively.
C6_ExactName ==
  Called("getCurrenciesByExactName") =>
    IF Falsy(call.arg) THEN result = <<>>
    ELSE result = RecordsNamed(trim(call.arg))

\* a record found by an alias while another record, whose name holds the
\* query as a proper substring, is left out
C6_Witness ==
  /\ Called("getCurrenciesByExactName")
  /\ result # <<>>
  /\ \E k \in 1..Len(codeToCurrency) :
       LET rec == codeToCurrency[k].value
       IN  /\ ~arrayIncludes(result, rec)
           /\ includes(toLowerCase(rec.currencyName), toLowerCase(trim(call.arg)))

\* ---------------------------------------------------------------- C7
\* C7: getFlagUrlByCountryCode returns null for an empty or absent code, and
\* otherwise the locator, in the flags directory, of the file named by the
\* trimmed, lower-cased code followed by ".svg"; inputs that differ only in
\* letter case or surrounding white space yield the same locator.
C7_FlagUrlByCountryCode ==
  Called("getFlagUrlByCountryCode") =>
    IF Falsy(call.arg) THEN result = Null
    ELSE /\ result = Str(FlagsDirectory \o toLowerCase(trim(call.arg)) \o <<".","s","v","g">>)
         /\ \A x \in CountryInputs :
              (~Falsy(x) /\ DiffersOnlyInCaseOrPadding(x, trim(call.arg))) =>
                getFlagUrlByCountryCode(x) = result

\* a padded code with upper-case letters
C7_Witness ==
  /\ Called("getFlagUrlByCountryCode")
  /\ call.arg # Absent
  /\ trim(call.arg) # call.arg
  /\ toLowerCase(call.arg) # call.arg
  /\ result # Null

\* ---------------------------------------------------------------- C8
\* the flag locator of a country code
FlagOf(countryCode) == FlagsDirectory \o toLowerCase(countryCode) \o <<".","s","v","g">>

\* C8: for a currency of the dataset, getFlagUrlsForCurrency returns as
\* primary what getFlagUrlByCurrencyCode returns, the flag locator of the
\* currency's primaryCountryCode, and as others one flag locator per entry
\* of otherCountryCodes in the same order; for an unknown currency
\* getFlagUrlByCurrencyCode returns null and getFlagUrlsForCurrency returns
\* {primary: null, others: []}.
C8_FlagUrlsForCurrency ==
  Called("getFlagUrlsForCurrency") =>
    IF Norm(call.arg) \in DataCodes
    THEN LET rec == MapGet(codeToCurrency, Norm(call.arg))
         IN  /\ result.primary = getFlagUrlByCurrencyCode(call.arg)
             /\ result.primary = Str(FlagOf(rec.primaryCountryCode))
             /\ Len(result.others) = Len(rec.otherCountryCodes)
             /\ \A k \in 1..Len(rec.otherCountryCodes) :
                  result.others[k] = FlagOf(rec.otherCountryCodes[k])
    ELSE /\ getFlagUrlByCurrencyCode(call.arg) = Null
         /\ result = [primary |-> Null, others |-> <<>>]

\* a currency with two other countries
C8_Witness ==
  /\ Called("getFlagUrlsForCurrency")
  /\ result.primary # Null
  /\ Len(result.others) >= 2

\* ---------------------------------------------------------------- C9
\* C9: every record in the index has a primaryCountryCode that is not among
\* its otherCountryCodes, and its otherCountryCodes holds no duplicates.
C9_PrimaryNotAmongOthers ==
  \A k \in 1..Len(codeToCurrency) :
    LET rec == codeToCurrency[k].value
    IN  /\ ~arrayIncludes(rec.otherCountryCodes, rec.primaryCountryCode)
        /\ NoDuplicates(rec.otherCountryCodes)

\* the index is built and holds a record whose primary country was taken
\* from the currency's own countries (no override, not the XX fallback)
C9_Witness ==
  /\ pc = "ready"
  /\ \E k \in 1..Len(codeToCurrency) :
       LET rec == codeToCurrency[k].value
       IN  /\ Lookup(PRIMARY_OVERRIDES, rec.currencyCode, <<>>) = <<>>
           /\ rec.primaryCountryCode # <<"X","X">>

\* --------------------------------------------------------------- C10
\* C10: once the index is built, no call of a public query function changes
\* codeToCurrency, countryToCurrencyCodes or nameHaystackByCode (a call's
\* result is a function of these and of its argument, so the same call
\* returns the same value however many calls lie between).
C10_QueriesLeaveIndices ==
  [][pc = "ready" => indices' = indices]_vars

\* a lookup of a country the index does not hold has returned
C10_Witness ==
  /\ Called("getCurrenciesByCountryCode")
  /\ ~MapHas(countryToCurrencyCodes, Norm(call.arg))
  /\ result = <<>>

=============================================================================
